---- MODULE Spec2Model ----
(***************************************************************************)
(* The verify_student management commands of edx-platform:                 *)
(*   send_verification_expiry_email  (Command.handle and the celery task   *)
(*                                    send_verification_expiry_email)      *)
(*   populate_expiry_date            (Command.handle)                      *)
(* over a store of SoftwareSecurePhotoVerification rows.  Dates are whole  *)
(* days on the clock `now`.                                                *)
(*                                                                         *)
(* Command.handle of send_verification_expiry_email is a process: one step *)
(* up to its for loop, then one step per user.  The celery tasks it        *)
(* enqueues with delay() run asynchronously, one row (send_mail, update)   *)
(* per step, in any order, and the clock may advance between any two       *)
(* steps.  Command runs follow one another; a run may start while tasks of *)
(* earlier runs are still queued.  `events` records what a run did and     *)
(* `pre` what the store held when the run started.                         *)
(* populate_expiry_date's handle has nothing running beside it and is one  *)
(* action.                                                                 *)
(***************************************************************************)
EXTENDS Integers, Sequences, FiniteSets, TLC

(* ------------------------------ bounds -------------------------------- *)

NumRecords == 2
MaxRuns == 2
MaxTicks == 2
MaxPopulateRuns == 2
\* settings.VERIFY_STUDENT["DAYS_GOOD_FOR"], scaled to the model's clock
DAYS_GOOD_FOR == 5

(* --------------------------- the store -------------------------------- *)

\* Python None / SQL NULL of a nullable DateTimeField
None == -1

Pks == 1..NumRecords
UserIds == {1, 2}
\* the clock at Init
Now0 == NumRecords + 3
Statuses == {"approved", "submitted"}
\* expiry dates a row may start with, around Now0
ExpiryDates == {None, Now0 - 4, Now0 - 1, Now0}
\* option values a command line may give
BatchSizes == {1, 2, 3}
ResendDaysChoices == {1}
DaysRangeChoices == {4}

VARIABLES
    store,                \* pk -> row of SoftwareSecurePhotoVerification
    now,                  \* datetime.now(UTC), in days
    pc,                   \* "idle" | "loop": position of Command.handle
    options,              \* the running (or last) command's options
    start_now,            \* datetime.now(UTC) when handle built its query
    total_verification,   \* handle's local counter
    users,                \* user ids the for loop has still to visit
    batch_verifications,  \* handle's local list (of pks)
    tasks,                \* celery tasks enqueued and not finished
    outbox,               \* pk -> number of mails sent for that row
    warnings,             \* pk -> number of "Failure in sending" log lines
    events,               \* what the running (or last) command did, in order
    runs,                 \* number of send_verification_expiry_email runs
    pre,                  \* the store, outbox and pending rows at run start
    populate_runs,        \* number of populate_expiry_date runs
    populate_sleeps       \* time.sleep calls of the last populate run

vars == <<store, now, pc, options, start_now, total_verification, users,
          batch_verifications, tasks, outbox, warnings, events, runs, pre,
          populate_runs, populate_sleeps>>

Row == [user_id : UserIds, status : Statuses, updated_at : 1..NumRecords,
        expiry_date : ExpiryDates, expiry_email_date : {None}]

\* updated_at is an auto_now timestamp, so no two rows share one; the pk is
\* only a row's identity, so the rows are numbered latest update first
Stores == {s \in [Pks -> Row] :
             \A p \in Pks : s[p].updated_at = NumRecords + 1 - p}

(* --------------------------- pure helpers ----------------------------- *)

RECURSIVE SortedSeq(_)
\* the elements of a set of integers, ascending (ORDER BY)
SortedSeq(S) ==
    IF S = {} THEN <<>>
    ELSE LET m == CHOOSE x \in S : \A y \in S : x <= y
         IN <<m>> \o SortedSeq(S \ {m})

Range(s) == {s[i] : i \in 1..Len(s)}

\* faulty variant: the query without expiry_date__gt=start_date
ExpiredQuery_NoStartDate(st, t, days) ==
    {pk \in Pks : /\ st[pk].status = "approved"
                  /\ st[pk].expiry_date # None
                  /\ st[pk].expiry_date < t}

\* filter(status='approved', expiry_date__lt=now, expiry_date__gt=start_date)
ExpiredQuery(st, t, days) ==
    {pk \in Pks : /\ st[pk].status = "approved"
                  /\ st[pk].expiry_date # None
                  /\ st[pk].expiry_date < t
                  /\ st[pk].expiry_date > t - days}

\* model.filter(user_id=user_id).latest('updated_at')
find_recent_verification(st, model, user_id) ==
    CHOOSE pk \in model :
        /\ st[pk].user_id = user_id
        /\ \A q \in model : st[q].user_id = user_id
                               => st[q].updated_at <= st[pk].updated_at

\* sspv.values('user_id').distinct() of a query ordered by user_id
DistinctUsers(st, model) == SortedSeq({st[pk].user_id : pk \in model})

\* faulty variant: every selected row is mailed again, whenever it was stamped
NeedsEmail_Always(row, date_resend_days_ago) == TRUE

\* not expiry_email_date or expiry_email_date < date_resend_days_ago
NeedsEmail(row, date_resend_days_ago) ==
    \/ row.expiry_email_date = None
    \/ row.expiry_email_date < date_resend_days_ago

\* faulty variant: the batch is only due one row late
BatchIsDue_Late(batch, total, batch_size) ==
    \/ Len(batch) = batch_size + 1
    \/ total < batch_size

\* len(batch_verifications) == batch_size or total_verification < batch_size
BatchIsDue(batch, total, batch_size) ==
    \/ Len(batch) = batch_size
    \/ total < batch_size

\* faulty variant: the batch is handed to celery and the loop goes on at once
DispatchEvents_NoSleep(batch) ==
    <<[type |-> "delay", batch |-> batch]>>

\* what a real run does with a due batch: the celery task is enqueued, then
\* the command sleeps for sleep_time
DispatchEvents(batch) ==
    <<[type |-> "delay", batch |-> batch], [type |-> "sleep", batch |-> <<>>]>>

\* faulty variant: the counter and the batch list are reset in the branch of
\* the real run only
AfterDispatch_RealOnly(total, batch, opts) ==
    IF opts.dry_run
    THEN [total_verification |-> total, batch_verifications |-> batch]
    ELSE [total_verification |-> total - opts.batch_size,
          batch_verifications |-> <<>>]

\* the counter and the batch list after a batch was dispatched or logged,
\* the same for a real and a dry run
AfterDispatch(total, batch, opts) ==
    [total_verification |-> total - opts.batch_size,
     batch_verifications |-> <<>>]

\* the user ids the dry run's log line names for a batch
LoggedRange(st, batch) ==
    <<st[batch[1]].user_id, st[batch[Len(batch)]].user_id>>

\* faulty variant: the dry_run flag is ignored
SendsForReal_Always(opts) == TRUE

\* if not options['dry_run']
SendsForReal(opts) == ~opts.dry_run

\* faulty variant: the update is outside the try block
StampOnSend_Always(st, pk, sent, t) == [st EXCEPT ![pk].expiry_email_date = t]

\* send_mail(...) then update(expiry_email_date=now); SMTPException skips
\* the update
StampOnSend(st, pk, sent, t) ==
    IF sent THEN [st EXCEPT ![pk].expiry_email_date = t] ELSE st

(* ------------------- send_verification_expiry_email ------------------- *)

Init ==
    /\ store \in Stores
    /\ now = Now0
    /\ pc = "idle"
    \* no command has run yet
    /\ options = [batch_size |-> 1, dry_run |-> FALSE,
                  resend_days |-> 1, days_range |-> 4]
    /\ start_now = Now0
    /\ total_verification = 0
    /\ users = <<>>
    /\ batch_verifications = <<>>
    /\ tasks = <<>>
    /\ outbox = [pk \in Pks |-> 0]
    /\ warnings = [pk \in Pks |-> 0]
    /\ events = <<>>
    /\ runs = 0
    /\ pre = [store |-> store, outbox |-> outbox, pending |-> {}]
    /\ populate_runs = 0
    /\ populate_sleeps = 0

\* the rows the command's query selects, read from the store as it is now
sspv == ExpiredQuery(store, start_now, options.days_range)

RECURSIVE PendingCountOf(_)
\* how many rows the tasks `ts` have still to process
PendingCountOf(ts) ==
    IF ts = <<>> THEN 0
    ELSE (Len(Head(ts).batch) - Head(ts).i + 1) + PendingCountOf(Tail(ts))

PendingCount == PendingCountOf(tasks)

\* rows held by tasks that have still to process them
PendingRows ==
    UNION {{tasks[k].batch[j] : j \in tasks[k].i..Len(tasks[k].batch)}
             : k \in 1..Len(tasks)}

\* Command.handle, from its start to the for loop (or to the early return)
HandleBegin(batch_size, dry_run, resend_days, days_range) ==
    /\ pc = "idle"
    /\ runs < MaxRuns
    /\ LET model == ExpiredQuery(store, now, days_range)
           count == Cardinality(model)
       IN /\ options' = [batch_size |-> batch_size, dry_run |-> dry_run,
                         resend_days |-> resend_days, days_range |-> days_range]
          /\ start_now' = now
          /\ total_verification' = count
          /\ batch_verifications' = <<>>
          /\ runs' = runs + 1
          /\ pre' = [store |-> store, outbox |-> outbox, pending |-> PendingRows]
          /\ IF count = 0
             THEN /\ events' = <<[type |-> "none_found", batch |-> <<>>]>>
                  /\ users' = <<>>
                  /\ pc' = "idle"
             ELSE /\ events' = <<[type |-> "total", batch |-> <<>>]>>
                  /\ users' = DistinctUsers(store, model)
                  /\ pc' = "loop"
    /\ UNCHANGED <<store, now, tasks, outbox, warnings,
                   populate_runs, populate_sleeps>>

\* one iteration of handle's for loop; after the last one handle returns
HandleUser ==
    /\ pc = "loop"
    /\ users # <<>>
    /\ LET verification == find_recent_verification(store, sspv, Head(users))
           date_resend_days_ago == start_now - options.resend_days
           batch == Append(batch_verifications, verification)
       IN IF NeedsEmail(store[verification], date_resend_days_ago)
          THEN IF BatchIsDue(batch, total_verification, options.batch_size)
               THEN /\ IF SendsForReal(options)
                       THEN /\ tasks' = Append(tasks, [batch |-> batch, i |-> 1])
                            /\ events' = events \o DispatchEvents(batch)
                       ELSE /\ tasks' = tasks
                            /\ events' = Append(events,
                                 [type |-> "dry_run", batch |-> batch])
                    /\ total_verification' =
                           AfterDispatch(total_verification, batch,
                                         options).total_verification
                    /\ batch_verifications' =
                           AfterDispatch(total_verification, batch,
                                         options).batch_verifications
               ELSE /\ batch_verifications' = batch
                    /\ UNCHANGED <<tasks, events, total_verification>>
          ELSE UNCHANGED <<tasks, events, total_verification,
                           batch_verifications>>
    /\ users' = Tail(users)
    /\ pc' = IF Tail(users) = <<>> THEN "idle" ELSE "loop"
    /\ UNCHANGED <<store, now, options, start_now, outbox, warnings, runs, pre,
                   populate_runs, populate_sleeps>>

\* the celery task's mail for its next row: sent and stamped, or
\* SMTPException caught and logged
SendMail(k, sent) ==
    /\ k \in 1..Len(tasks)
    /\ LET task == tasks[k]
           pk == task.batch[task.i]
           rest == [j \in 1..(Len(tasks) - 1) |->
                       IF j < k THEN tasks[j] ELSE tasks[j + 1]]
       IN /\ store' = StampOnSend(store, pk, sent, now)
          /\ IF sent
             THEN /\ outbox' = [outbox EXCEPT ![pk] = @ + 1]
                  /\ warnings' = warnings
             ELSE /\ warnings' = [warnings EXCEPT ![pk] = @ + 1]
                  /\ outbox' = outbox
          /\ tasks' = IF task.i = Len(task.batch)
                      THEN rest
                      ELSE [tasks EXCEPT ![k].i = @ + 1]
    /\ UNCHANGED <<now, pc, options, start_now, total_verification, users,
                   batch_verifications, events, runs, pre,
                   populate_runs, populate_sleeps>>

\* a day passes
Tick ==
    /\ now < Now0 + MaxTicks
    /\ now' = now + 1
    /\ UNCHANGED <<store, pc, options, start_now, total_verification, users,
                   batch_verifications, tasks, outbox, warnings, events, runs,
                   pre, populate_runs, populate_sleeps>>

Next ==
    \/ \E b \in BatchSizes, d \in BOOLEAN,
          r \in ResendDaysChoices, g \in DaysRangeChoices :
          HandleBegin(b, d, r, g)
    \/ HandleUser
    \/ \E k \in 1..Len(tasks), sent \in BOOLEAN : SendMail(k, sent)
    \/ Tick

Spec == Init /\ [][Next]_vars

(* ------------------------- populate_expiry_date ----------------------- *)

\* filter(status='approved')
ApprovedQuery(st) == {pk \in Pks : st[pk].status = "approved"}

\* faulty variant: earliest('updated_at')
populate_find_earliest_verification(st, model, user_id) ==
    CHOOSE pk \in model :
        /\ st[pk].user_id = user_id
        /\ \A q \in model : st[q].user_id = user_id
                               => st[q].updated_at >= st[pk].updated_at

\* populate_expiry_date's model.filter(user_id=user_id).latest('updated_at')
populate_find_recent_verification(st, model, user_id) ==
    CHOOSE pk \in model :
        /\ st[pk].user_id = user_id
        /\ \A q \in model : st[q].user_id = user_id
                               => st[q].updated_at <= st[pk].updated_at

\* faulty variant: the expiry_date is written whether or not it was set
ExpiryDateUnset_Always(row) == TRUE

\* not recent_verification.expiry_date
ExpiryDateUnset(row) == row.expiry_date = None

\* recent_verification.updated_at + timedelta(days=DAYS_GOOD_FOR)
NewExpiryDate(row) == row.updated_at + DAYS_GOOD_FOR

RECURSIVE PopulateLoop(_, _, _, _, _)
\* the for loop of populate_expiry_date's handle over the users `us`:
\* the store and the number of sleeps it ends with
PopulateLoop(st, us, updated_verification_count, sleeps, batch_size) ==
    IF us = <<>> THEN [store |-> st, sleeps |-> sleeps]
    ELSE LET recent == populate_find_recent_verification(
                           st, ApprovedQuery(st), Head(us))
             unset == ExpiryDateUnset(st[recent])
             st2 == IF unset
                    THEN [st EXCEPT ![recent].expiry_date = NewExpiryDate(st[recent])]
                    ELSE st
             count == IF unset THEN updated_verification_count + 1
                      ELSE updated_verification_count
         IN IF count = batch_size
            THEN PopulateLoop(st2, Tail(us), 0, sleeps + 1, batch_size)
            ELSE PopulateLoop(st2, Tail(us), count, sleeps, batch_size)

\* populate_expiry_date's Command.handle
Populate(batch_size) ==
    /\ populate_runs < MaxPopulateRuns
    /\ LET model == ApprovedQuery(store)
           done == PopulateLoop(store, DistinctUsers(store, model), 0, 0,
                                batch_size)
       IN IF model = {}
          THEN /\ store' = store
               /\ populate_sleeps' = 0
          ELSE /\ store' = done.store
               /\ populate_sleeps' = done.sleeps
    /\ populate_runs' = populate_runs + 1
    /\ pre' = [pre EXCEPT !.store = store]
    /\ UNCHANGED <<now, pc, options, start_now, total_verification, users,
                   batch_verifications, tasks, outbox, warnings, events, runs>>

NextPopulate == \E b \in BatchSizes : Populate(b)

SpecPopulate == Init /\ [][NextPopulate]_vars

\* the for loop of handle over the users us on a store nothing else writes
\* to: the batches it dispatches or logs, in order
RECURSIVE LoopBatches(_, _, _, _, _, _, _)
LoopBatches(st, model, us, total, batch_list, opts, t) ==
    IF us = <<>>
    THEN <<>>
    ELSE LET verification == find_recent_verification(st, model, Head(us))
             batch == Append(batch_list, verification)
             after == AfterDispatch(total, batch, opts)
         IN IF NeedsEmail(st[verification], t - opts.resend_days)
            THEN IF BatchIsDue(batch, total, opts.batch_size)
                 THEN <<batch>> \o
                      LoopBatches(st, model, Tail(us), after.total_verification,
                                  after.batch_verifications, opts, t)
                 ELSE LoopBatches(st, model, Tail(us), total, batch, opts, t)
            ELSE LoopBatches(st, model, Tail(us), total, batch_list, opts, t)

\* the batches handle forms at time t with options opts on a store nothing
\* else writes to
HandleBatches(st, t, opts) ==
    LET model == ExpiredQuery(st, t, opts.days_range)
    IN IF Cardinality(model) = 0
       THEN <<>>
       ELSE LoopBatches(st, model, DistinctUsers(st, model),
                        Cardinality(model), <<>>, opts, t)

(* ------------------------------ claims -------------------------------- *)

\* the row's expiry_date is strictly inside (now - days_range, now) for the
\* running (or last) send command
InsideRange(pk) ==
    /\ pre.store[pk].expiry_date # None
    /\ pre.store[pk].expiry_date < start_now
    /\ pre.store[pk].expiry_date > start_now - options.days_range

\* the approved rows in range for the running (or last) send command
Selected == {pk \in Pks : pre.store[pk].status = "approved" /\ InsideRange(pk)}

\* pk is the approved row of its user with the latest updated_at
MostRecentApproved(st, pk) ==
    /\ st[pk].status = "approved"
    /\ \A q \in Pks : (st[q].user_id = st[pk].user_id /\ st[q].status = "approved")
                         => st[q].updated_at <= st[pk].updated_at

\* the batches the running (or last) send command dispatched or logged
Batches == {events[n].batch : n \in {m \in 1..Len(events) :
                                        events[m].type \in {"delay", "dry_run"}}}

\* a real send command has returned, every task has finished, and no mail
\* ever failed
RunSettled ==
    /\ runs >= 1
    /\ pc = "idle"
    /\ ~options.dry_run
    /\ tasks = <<>>
    /\ \A pk \in Pks : warnings[pk] = 0

\* C1: once a real run has returned and all its tasks have run with no mail
\* failure, every approved row that is its user's most recent one, has its
\* expiry_date inside (now - days_range, now) and had a null
\* expiry_email_date has had exactly one mail sent and is stamped with the
\* send time.
C1_EveryQualifyingRowEmailedOnce ==
    RunSettled =>
        \A pk \in Pks :
            (/\ pk \in Selected
             /\ MostRecentApproved(pre.store, pk)
             /\ pre.store[pk].expiry_email_date = None
             /\ pk \notin pre.pending)
            => /\ outbox[pk] = pre.outbox[pk] + 1
               /\ store[pk].expiry_email_date >= start_now
               /\ store[pk].expiry_email_date <= now

\* C2: a row that has been put in a batch, mailed or stamped is the row with
\* the latest updated_at among all approved rows of its user.
C2_OnlyMostRecentApprovedNotified ==
    \A pk \in Pks :
        (\/ outbox[pk] > 0
         \/ store[pk].expiry_email_date # None
         \/ pk \in PendingRows
         \/ \E b \in Batches : pk \in Range(b))
        => MostRecentApproved(store, pk)

C4_StampOnlyAfterSuccessfulSend ==
    [][\A pk \in Pks :
          /\ store'[pk] # store[pk] =>
                /\ outbox'[pk] = outbox[pk] + 1
                /\ store'[pk] = [store[pk] EXCEPT !.expiry_email_date = now]
          /\ outbox'[pk] # outbox[pk] =>
                /\ store'[pk].expiry_email_date = now
                /\ PendingCount' = PendingCount - 1
          /\ warnings'[pk] # warnings[pk] =>
                /\ store' = store
                /\ outbox' = outbox
                /\ PendingCount' = PendingCount - 1]_vars

\* C4 witness: in one batch the mail for an earlier row failed and left the
\* row unstamped, and a later row was mailed and stamped
C4_Witness ==
    /\ runs = 1
    /\ \E n \in 1..Len(events) :
          /\ events[n].type = "delay"
          /\ \E i, j \in 1..Len(events[n].batch) :
                /\ i < j
                /\ warnings[events[n].batch[i]] = 1
                /\ outbox[events[n].batch[i]] = 0
                /\ store[events[n].batch[i]].expiry_email_date = None
                /\ outbox[events[n].batch[j]] = 1
                /\ store[events[n].batch[j]].expiry_email_date # None

\* C5: an approved row whose expiry_date is not strictly inside
\* (now - days_range, now) for a run, and that no earlier task was holding,
\* is in no batch of the run, gets no mail and keeps its expiry_email_date.
C5_OutOfRangeUntouched ==
    runs >= 1 =>
        \A pk \in Pks :
            (/\ pre.store[pk].status = "approved"
             /\ pk \notin Selected
             /\ pk \notin pre.pending)
            => /\ outbox[pk] = pre.outbox[pk]
               /\ store[pk] = pre.store[pk]
               /\ pk \notin PendingRows
               /\ pk \notin Range(batch_verifications)
               /\ \A b \in Batches : pk \notin Range(b)

\* C5 witness: a real run mailed one row and left alone an approved row whose
\* expiry_date is on a boundary of the range (now, or now - days_range)
C5_Witness ==
    /\ runs = 1
    /\ pc = "idle"
    /\ tasks = <<>>
    /\ \E pk, q \in Pks :
          /\ store[pk].status = "approved"
          /\ store[pk].expiry_date \in {start_now, start_now - options.days_range}
          /\ store[pk].expiry_email_date = None
          /\ outbox[pk] = 0
          /\ outbox[q] = 1

\* a step of Command.handle
HandleStep == runs' # runs \/ users' # users

\* C6: no step of a dry run enqueues a task, sends or fails a mail, sleeps
\* or changes any row.
C6_DryRunChangesNothing ==
    [][(HandleStep /\ options'.dry_run) =>
          /\ store' = store
          /\ tasks' = tasks
          /\ outbox' = outbox
          /\ warnings' = warnings
          /\ \A n \in 1..Len(events') :
                events'[n].type \notin {"delay", "sleep"}]_vars

\* C6 witness: a dry run that formed and logged a batch has returned
C6_Witness ==
    /\ runs = 1
    /\ pc = "idle"
    /\ options.dry_run
    /\ \E n \in 1..Len(events) :
          events[n].type = "dry_run" /\ Len(events[n].batch) = 2
    /\ store = pre.store
    /\ tasks = <<>>

\* C7: after a real run whose tasks all ran without mail failure, a row that
\* was stamped more than resend_days before the run, is approved, its user's
\* most recent and in range has one more mail and a new stamp; a row stamped
\* less than resend_days before the run is left alone.
C7_ResentAfterResendDays ==
    RunSettled =>
        \A pk \in Pks :
            /\ (/\ pk \in Selected
                /\ MostRecentApproved(pre.store, pk)
                /\ pre.store[pk].expiry_email_date # None
                /\ pre.store[pk].expiry_email_date < start_now - options.resend_days
                /\ pk \notin pre.pending)
               => /\ outbox[pk] = pre.outbox[pk] + 1
                  /\ store[pk].expiry_email_date >= start_now
                  /\ store[pk].expiry_email_date <= now
            /\ (/\ pre.store[pk].expiry_email_date # None
                /\ pre.store[pk].expiry_email_date > start_now - options.resend_days
                /\ pk \notin pre.pending)
               => /\ outbox[pk] = pre.outbox[pk]
                  /\ store[pk] = pre.store[pk]

\* C8: a second populate_expiry_date run changes no row, and no run changes
\* an expiry_date that was already set.
C8_PopulateIdempotent ==
    /\ populate_runs >= 2 => store = pre.store
    /\ populate_runs >= 1 =>
          \A pk \in Pks :
              pre.store[pk].expiry_date # None
                 => store[pk].expiry_date = pre.store[pk].expiry_date

\* C8 witness: two runs have been made and a row carries the expiry_date that
\* populate_expiry_date computes (no row starts with that value)
C8_Witness ==
    /\ populate_runs = 2
    /\ \E pk \in Pks :
          /\ store[pk].expiry_date = NewExpiryDate(store[pk])
          /\ pre.store[pk].expiry_date = NewExpiryDate(store[pk])

\* C9: after populate_expiry_date, the most recent approved row of each user
\* has expiry_date = updated_at + DAYS_GOOD_FOR if it was unset, with its
\* other fields as before, and every other row is unchanged.
C9_PopulateSetsMostRecentOnly ==
    populate_runs >= 1 =>
        \A pk \in Pks :
            IF /\ MostRecentApproved(pre.store, pk)
               /\ pre.store[pk].expiry_date = None
            THEN store[pk] =
                    [pre.store[pk] EXCEPT
                        !.expiry_date = pre.store[pk].updated_at + DAYS_GOOD_FOR]
            ELSE store[pk] = pre.store[pk]

\* C9 witness: a user had two approved rows with no expiry_date; the run set
\* the more recent one's and left the older one's unset
C9_Witness ==
    /\ populate_runs = 1
    /\ \E pk, q \in Pks :
          /\ pk # q
          /\ store[pk].user_id = store[q].user_id
          /\ store[pk].status = "approved"
          /\ store[q].status = "approved"
          /\ pre.store[pk].expiry_date = None
          /\ pre.store[q].expiry_date = None
          /\ store[pk].updated_at > store[q].updated_at
          /\ store[pk].expiry_date = store[pk].updated_at + DAYS_GOOD_FOR
          /\ store[q].expiry_date = None

\* C10: every batch a run dispatches or logs is non-empty and holds at most
\* batch_size rows.
C10_BatchWithinBatchSize ==
    \A b \in Batches : Len(b) >= 1 /\ Len(b) <= options.batch_size

\* C10 witness: a run with batch_size 2 has dispatched a full batch
C10_Witness ==
    /\ options.batch_size = 2
    /\ \E n \in 1..Len(events) :
          events[n].type = "delay" /\ Len(events[n].batch) = 2

\* the batches the running (or last) send command dispatched or logged, in
\* the order of their dispatch
IsBatchEvent(e) == e.type \in {"delay", "dry_run"}

BatchSeq == LET picked == SelectSeq(events, IsBatchEvent)
            IN [n \in 1..Len(picked) |-> picked[n].batch]

\* the rows the running (or last) send command had to notify: the latest
\* selected row of its user, never stamped or stamped before the resend date
Qualifying ==
    {pk \in Selected :
        /\ \A q \in Selected : pre.store[q].user_id = pre.store[pk].user_id
                                  => pre.store[q].updated_at <= pre.store[pk].updated_at
        /\ \/ pre.store[pk].expiry_email_date = None
           \/ pre.store[pk].expiry_email_date < start_now - options.resend_days}

\* a send command has returned and no task of an earlier run was still
\* stamping rows while it ran
RunReturned ==
    /\ runs >= 1
    /\ pc = "idle"
    /\ pre.pending = {}

\* C11: when a run has returned, its batches are pairwise disjoint, together
\* hold exactly the qualifying rows, and every batch but the last holds
\* exactly batch_size rows.
C11_BatchesPartitionQualifying ==
    RunReturned =>
        /\ \A i, j \in 1..Len(BatchSeq) :
              i # j => Range(BatchSeq[i]) \cap Range(BatchSeq[j]) = {}
        /\ UNION {Range(BatchSeq[i]) : i \in 1..Len(BatchSeq)} = Qualifying
        /\ \A i \in 1..Len(BatchSeq) :
              i < Len(BatchSeq) => Len(BatchSeq[i]) = options.batch_size

\* the number of events of the given type in the running (or last) run's log
EventCount(type) == Cardinality({n \in 1..Len(events) : events[n].type = type})

\* C12: in a real run every batch dispatch is directly followed by one sleep
\* and every sleep directly follows a dispatch, so no two dispatches happen
\* without a sleep between them and there are as many sleeps as dispatches.
C12_SleepAfterEveryDispatch ==
    ~options.dry_run =>
        /\ \A n \in 1..Len(events) :
              events[n].type = "delay"
                 => n < Len(events) /\ events[n + 1].type = "sleep"
        /\ \A n \in 1..Len(events) :
              events[n].type = "sleep"
                 => n > 1 /\ events[n - 1].type = "delay"
        /\ EventCount("sleep") = EventCount("delay")

\* C12 witness: a real run has dispatched two batches and slept twice
C12_Witness ==
    /\ ~options.dry_run
    /\ EventCount("delay") = 2
    /\ EventCount("sleep") = 2
    /\ \E n \in 1..Len(events) :
          /\ n + 2 <= Len(events)
          /\ events[n].type = "delay"
          /\ events[n + 1].type = "sleep"
          /\ events[n + 2].type = "delay"

\* the smallest and the largest user_id among the rows of a batch
MinUserId(st, batch) ==
    CHOOSE u \in {st[pk].user_id : pk \in Range(batch)} :
        \A pk \in Range(batch) : u <= st[pk].user_id

MaxUserId(st, batch) ==
    CHOOSE u \in {st[pk].user_id : pk \in Range(batch)} :
        \A pk \in Range(batch) : u >= st[pk].user_id

\* C13: the batches of a returned run, real (its tasks run at any time) or
\* dry, are in order the batches a dry run with the same options forms on
\* the store the run started from, and the user-id range logged for a batch
\* is the minimum and the maximum user_id of its rows.
C13_DryRunFormsSameBatches ==
    /\ RunReturned =>
          BatchSeq = HandleBatches(pre.store, start_now,
                                   [options EXCEPT !.dry_run = TRUE])
    /\ \A n \in 1..Len(BatchSeq) :
          LoggedRange(store, BatchSeq[n]) =
             <<MinUserId(store, BatchSeq[n]), MaxUserId(store, BatchSeq[n])>>

\* C13 witness: a real run has returned, its one batch holds the rows of two
\* users and both have been mailed
C13_Witness ==
    /\ RunReturned
    /\ ~options.dry_run
    /\ tasks = <<>>
    /\ Len(BatchSeq) = 1
    /\ Len(BatchSeq[1]) = 2
    /\ LoggedRange(store, BatchSeq[1]) = <<1, 2>>
    /\ \A pk \in Range(BatchSeq[1]) : outbox[pk] = pre.outbox[pk] + 1
    /\ BatchSeq = HandleBatches(pre.store, start_now,
                                [options EXCEPT !.dry_run = TRUE])


====
